---- MODULE Spec2Model ----
(***************************************************************************)
(* Model of train() and save_checkpoint() of train.py: the epoch / batch   *)
(* loop with gradient accumulation, the optimizer-step boundary, the       *)
(* logit-scale clamp, the validation pass and the bounded checkpoint       *)
(* retry.                                                                  *)
(*                                                                         *)
(* Numbers.  Real-valued quantities are exact integers in fixed units:     *)
(*   - the raw logit scale (model.logit_scale.data) in units of 1e-6;      *)
(*   - the exponentiated logit scale in units of 1e-3;                     *)
(*   - normalised embedding components in units of 1/5.                    *)
(* Arithmetic on them is exact; floating-point rounding is not modelled.   *)
(***************************************************************************)
EXTENDS Integers, Sequences, FiniteSets, TLC

\* ------------------------------------------------------------------ bounds
MaxBatches == 3
MaxAccum == 2
MaxEpochs == 2
MaxValidBatches == 1
MaxSaveSteps == 2
BatchRows == 2
\* the largest total step count the warmup computation is tabulated for
MaxTotalSteps == 40

\* ---------------------------------------------------------- program constants
\* while (save_num < 10)
MaxSaveTrials == 10
\* torch.clamp(model.logit_scale.data, 0, 4.6052), in units of 1e-6
ClampMin == 0
ClampMax == 4605200
\* ln(100) = 4.605170185..., in units of 1e-6 (rounded down): the bound the
\* comment "log(100) = 4.6052" refers to
LnHundred == 4605170
\* marks a Python local that has not been assigned yet
Unbound == -1

\* torch.cuda.device_count(): no GPU (cpu), one GPU, several GPUs
GpuCounts == 0..2

\* config.logging_steps: a training record is logged at every second optimizer step
LoggingSteps == {2}

\* --------------------------------------------------------------- the inputs
\* Raw (un-normalised) embedding rows the encoder pair may return; every one
\* has an integer L2 norm (5 or 10).
RawRows == { <<5, 0>>, <<0, 10>>, <<3, 4>>, <<8, 6>>, <<-4, 3>> }

\* The batches the loaders of the training run yield: the encoder's image rows
\* and caption rows. In both every row's best caption is its own; the largest
\* logit of the first lies in row 0, that of the second in row 1.
Batches ==
  { [img |-> << <<5, 0>>, <<3, 4>> >>, txt |-> << <<5, 0>>, <<0, 10>> >>],
    [img |-> << <<3, 4>>, <<0, 10>> >>, txt |-> << <<8, 6>>, <<0, 5>> >>] }

\* Values the optimizer's step may leave in the raw logit-scale parameter
\* (units of 1e-6): below the clamp range, inside it, above it.
RawWrites == { -1000000, 2000000, 5000000 }

\* The raw logit scale the model is constructed with.
InitLogitScale == 2000000

\* Every value the raw logit scale can hold: the constructed one, what the
\* optimizer writes, and the two ends of the clamp range.
RawScales == {InitLogitScale, ClampMin, ClampMax} \cup RawWrites

VARIABLES
  config,            \* the configuration record read by train()
  train_len,         \* len(train_dataloader)
  valid_len,         \* len(valid_dataloader)
  pc,                \* position of the control flow
  err,               \* the exception that ended the run ("" if none)
  epoch,             \* for epoch in range(num_train_epochs)
  step,              \* enumerate index of the training loop
  vpos,              \* position of the validation loop's iterator
  final_step,        \* enumerate index of the validation loop (Unbound until assigned)
  global_step,
  global_loss,
  train_img_acc,
  logit_scale_data,  \* model.logit_scale.data, the raw parameter
  batch,             \* the encoder outputs for the batch in hand (<< >> between batches)
  logit_scale,       \* the local logit_scale = model.logit_scale.exp()
  logits_per_image,
  logits_per_text,
  matches,           \* (logits_per_image.argmax() == labels).sum() of the batch in hand
  loss,              \* the local loss of the last batch
  grad_batches,      \* batches whose gradients sit in .grad since the last zero_grad()
  valid_loss,
  valid_img,
  valid_txt,
  val_img_acc,
  save_num,          \* save_checkpoint's failure counter
  \* ---- observers (no effect on the control flow)
  opt_steps,         \* calls of optimizer.step()
  sched_steps,       \* calls of scheduler.step()
  zero_grads,        \* calls of model.zero_grad() after line 61
  epoch_gs0,         \* global_step when the current epoch started
  epoch_opt0,        \* opt_steps when the current epoch started
  valid_runs,        \* validation passes started so far
  save_calls,        \* calls of save_checkpoint
  last_saved_step,   \* global_step passed to the latest call (0 before the first)
  save_attempts,     \* torch.save attempts of the running call
  save_msgs,         \* logger messages of the running call
  train_log,         \* the training record line 120 emits (<< >> once it is written out)
  valid_log,         \* the validation record line 168 emits (<< >> once it is written out)
  result,            \* the value train() returned
  loss_terms,        \* observer: the values line 100 added to global_loss, in order
  ep_train_matches,  \* observer: match counts of this epoch's training batches, summed
  ep_valid           \* observer: sums and number of this epoch's validation batches

vars == << config, train_len, valid_len, pc, err, epoch, step, vpos, final_step,
           global_step, global_loss, train_img_acc, logit_scale_data, batch, logit_scale,
           logits_per_image, logits_per_text, matches, loss,
           grad_batches, valid_loss, valid_img, valid_txt, val_img_acc, save_num,
           opt_steps, sched_steps, zero_grads, epoch_gs0, epoch_opt0, valid_runs,
           save_calls, last_saved_step, save_attempts, save_msgs, train_log, valid_log,
           result, loss_terms, ep_train_matches, ep_valid >>

cfgVars == << config, train_len, valid_len >>
fwdVars == << batch, logit_scale, logits_per_image, logits_per_text, matches >>
lossVars == << fwdVars, loss >>
validVars == << valid_loss, valid_img, valid_txt, val_img_acc, vpos, final_step >>
saveVars == << save_num, save_calls, last_saved_step, save_attempts, save_msgs >>
optVars == << opt_steps, sched_steps, zero_grads, logit_scale_data, grad_batches >>
epochObs == << epoch_gs0, epoch_opt0, valid_runs >>
logVars == << train_log, valid_log, result >>
sumObs == << loss_terms, ep_train_matches, ep_valid >>

\* ------------------------------------------------------------ pure functions
Rows(M) == 1..Len(M)

RECURSIVE SumTo(_, _)
SumTo(s, k) == IF k = 0 THEN 0 ELSE s[k] + SumTo(s, k - 1)

SumSeq(s) == SumTo(s, Len(s))

\* x.norm(dim=-1): the L2 norm of one row (the rows drawn have integer norms)
Norm(v) == LET n == SumSeq([k \in 1..Len(v) |-> v[k] * v[k]])
           IN CHOOSE r \in 0..n : r * r <= n /\ (r + 1) * (r + 1) > n

\* x / x.norm(dim=-1, keepdim=True), components in units of 1/5
Normalize(X) == [i \in Rows(X) |-> [k \in 1..Len(X[i]) |-> (X[i][k] * 5) \div Norm(X[i])]]

\* model.logit_scale.exp(): raw value in units of 1e-6, result in units of 1e-3
Exp(raw) ==
  CASE raw <= -1000000 -> 368
    [] raw = 0 -> 1000
    [] raw = 2000000 -> 7389
    [] raw = LnHundred -> 100000
    [] raw = ClampMax -> 100003
    [] OTHER -> 148413

\* s * X for a scalar s
ScaleBy(s, X) == [i \in Rows(X) |-> [k \in 1..Len(X[i]) |-> s * X[i][k]]]

\* X.t()
Transpose(X) == [k \in 1..Len(X[1]) |-> [i \in Rows(X) |-> X[i][k]]]

\* X @ Y
MatMul(X, Y) ==
  [i \in Rows(X) |-> [j \in 1..Len(Y[1]) |->
      SumSeq([k \in 1..Len(Y) |-> X[i][k] * Y[k][j]])]]

\* logit_scale * image_features @ text_features.t(); the product and the
\* matrix product associate to the left
LogitsPerImage(s, image_features, text_features) ==
  MatMul(ScaleBy(s, image_features), Transpose(text_features))

\* line 85 as a copy of line 84, its operands not swapped
LogitsPerText_NotSwapped(s, image_features, text_features) ==
  MatMul(ScaleBy(s, image_features), Transpose(text_features))

\* logit_scale * text_features @ image_features.t()
LogitsPerText(s, image_features, text_features) ==
  MatMul(ScaleBy(s, text_features), Transpose(image_features))

\* torch.arange(len(logits_per_image))
Labels(M) == [i \in Rows(M) |-> i - 1]

\* M.argmax() with no dim: the index of the first maximal entry of the
\* flattened (row-major) matrix, counted from 0
FlatAt(M, idx) == M[(idx \div Len(M[1])) + 1][(idx % Len(M[1])) + 1]

ArgmaxFlat(M) ==
  LET n == Len(M) * Len(M[1])
  IN CHOOSE a \in 0..(n - 1) :
       /\ \A b \in 0..(n - 1) : FlatAt(M, b) <= FlatAt(M, a)
       /\ \A b \in 0..(n - 1) : b < a => FlatAt(M, b) < FlatAt(M, a)

\* (logits_per_image.argmax() == labels).sum(): the scalar argmax is broadcast
\* against the label vector
MatchCount(M) ==
  Cardinality({ i \in Rows(M) : ArgmaxFlat(M) = Labels(M)[i] })

\* F.cross_entropy(logits, labels): a function of the logits alone. torch's
\* value is a real number; the model keeps a positive integer stand-in in
\* units that divide by 2 and by the accumulation factor without remainder:
\* 12 for every row whose own caption is not its strict best, plus 12.
CrossEntropy(M) ==
  12 * (1 + Cardinality({ i \in Rows(M) :
                           \E j \in 1..Len(M[i]) : j # i /\ M[i][j] >= M[i][i] }))

\* loss = (image_loss + text_loss) / 2, then loss / gradient_accumulation_steps
\* when that factor is > 1
TrainLoss(il, tl, A) ==
  LET l == (il + tl) \div 2 IN IF A > 1 THEN l \div A ELSE l

\* the boundary test written on the raw index: step % gradient_accumulation_steps == 0
AtBoundary_OffByOne(st, A) == st % A = 0

\* line 104: (step + 1) % config.gradient_accumulation_steps == 0
AtBoundary(st, A) == (st + 1) % A = 0

\* torch.clamp(x, 0, 4.6052)
Clamp(x) == IF x < ClampMin THEN ClampMin ELSE IF x > ClampMax THEN ClampMax ELSE x

\* t_total = len(train_dataloader) // gradient_accumulation_steps * num_train_epochs
t_total == (train_len \div config.gradient_accumulation_steps) * config.num_train_epochs

\* the warmup count rounded up instead of truncated
WarmupOf_RoundedUp(t) == (20 * t + 99) \div 100

\* int(0.20 * t): the factor 0.20 is kept in hundredths and int() truncates
WarmupOf(t) == (20 * t) \div 100

\* line 39: num_warmup_steps = int(0.20 * t_total)
num_warmup_steps == WarmupOf(t_total)

\* ------------------------------------------------------------ initial state
Configs ==
  [ gradient_accumulation_steps : 1..MaxAccum,
    num_train_epochs : 0..MaxEpochs,
    save_steps : 0..MaxSaveSteps,
    logging_steps : LoggingSteps,
    n_gpu : GpuCounts ]

\* the observer of a validation pass before its first batch
NoBatches == [ loss |-> 0, img |-> 0, txt |-> 0, acc |-> 0, n |-> 0 ]

\* The state of train() after line 61: the loaders, t_total, the optimizer and
\* the schedule are built, global_step and global_loss are 0, the gradients
\* are zeroed; no local of the loops is bound yet.
Fresh ==
  /\ err = ""
  /\ epoch = 0
  /\ step = 0
  /\ vpos = 0
  /\ final_step = Unbound
  /\ global_step = 0
  /\ global_loss = 0
  /\ train_img_acc = 0
  /\ logit_scale = Unbound
  /\ logits_per_image = << >>
  /\ logits_per_text = << >>
  /\ matches = 0
  /\ loss = 0
  /\ grad_batches = 0
  /\ valid_loss = 0
  /\ valid_img = 0
  /\ valid_txt = 0
  /\ val_img_acc = 0
  /\ save_num = 0
  /\ opt_steps = 0
  /\ sched_steps = 0
  /\ zero_grads = 0
  /\ epoch_gs0 = 0
  /\ epoch_opt0 = 0
  /\ valid_runs = 0
  /\ save_calls = 0
  /\ last_saved_step = 0
  /\ save_attempts = 0
  /\ save_msgs = {}
  /\ train_log = << >>
  /\ valid_log = << >>
  /\ result = << >>
  /\ loss_terms = << >>
  /\ ep_train_matches = 0
  /\ ep_valid = NoBatches

Init ==
  /\ config \in Configs
  /\ train_len \in 0..MaxBatches
  /\ valid_len \in 0..MaxValidBatches
  /\ pc = "epoch"
  /\ logit_scale_data = InitLogitScale
  /\ batch = << >>
  /\ Fresh

\* ------------------------------------------------------------------ train()
\* global_step restarted with every epoch, like train_img_acc
EpochStart_ResetsGlobalStep ==
  /\ pc = "epoch"
  /\ valid_log' = << >>
  /\ epoch < config.num_train_epochs
  /\ train_img_acc' = 0
  /\ global_step' = 0
  /\ step' = 0
  /\ epoch_gs0' = 0
  /\ epoch_opt0' = opt_steps
  /\ pc' = "batch"
  /\ ep_train_matches' = 0
  /\ UNCHANGED << cfgVars, loss_terms, ep_valid, err, epoch, global_loss, lossVars, validVars,
                  saveVars, optVars, valid_runs, train_log, result >>

\* line 63-65: the next epoch starts; train_img_acc is reset
EpochStart ==
  /\ pc = "epoch"
  /\ valid_log' = << >>
  /\ epoch < config.num_train_epochs
  /\ train_img_acc' = 0
  /\ step' = 0
  /\ epoch_gs0' = global_step
  /\ epoch_opt0' = opt_steps
  /\ pc' = "batch"
  /\ ep_train_matches' = 0
  /\ UNCHANGED << cfgVars, loss_terms, ep_valid, err, epoch, global_step, global_loss, lossVars, validVars,
                  saveVars, optVars, valid_runs, train_log, result >>

\* line 63: range(num_train_epochs) is exhausted
EpochsDone ==
  /\ pc = "epoch"
  /\ valid_log' = << >>
  /\ epoch >= config.num_train_epochs
  /\ pc' = "return"
  /\ UNCHANGED << cfgVars, sumObs, err, epoch, step, global_step, global_loss, train_img_acc,
                  lossVars, validVars, saveVars, optVars, epochObs, train_log, result >>

\* lines 73-88 (and 137-153) for encoder outputs b and a stored raw scale raw:
\* the features are normalised, the scale is exponentiated, the two logit
\* matrices and the match count are built
ForwardOf(b, raw) ==
  [ logit_scale |-> Exp(raw),
    logits_per_image |-> LogitsPerImage(Exp(raw), Normalize(b.img), Normalize(b.txt)),
    logits_per_text |-> LogitsPerText(Exp(raw), Normalize(b.img), Normalize(b.txt)),
    matches |-> MatchCount(LogitsPerImage(Exp(raw), Normalize(b.img), Normalize(b.txt))) ]

\* ForwardOf on the batches of the run, evaluated once
ForwardOfBatch == [ b \in Batches, raw \in RawScales |-> ForwardOf(b, raw) ]

\* the locals the forward part of a batch binds, given its results f
BindForward(b, f) ==
  /\ batch' = b
  /\ logit_scale' = f.logit_scale
  /\ logits_per_image' = f.logits_per_image
  /\ logits_per_text' = f.logits_per_text
  /\ matches' = f.matches

\* the locals of one batch are not read again before the next batch rebinds
\* them; the model drops them when the batch is done
DropBatchLocals ==
  /\ batch' = << >>
  /\ logit_scale' = Unbound
  /\ logits_per_image' = << >>
  /\ logits_per_text' = << >>
  /\ matches' = 0

\* lines 66-88 with one GPU or more: the forward pass, the normalised
\* features, the two logit matrices and the match count
TrainForward ==
  /\ pc = "batch"
  /\ step < train_len
  /\ config.n_gpu >= 1
  /\ \E b \in Batches :
       /\ BindForward(b, ForwardOfBatch[b, logit_scale_data])
       /\ train_img_acc' = train_img_acc + ForwardOfBatch[b, logit_scale_data].matches
  /\ pc' = "loss"
  /\ ep_train_matches' = ep_train_matches + matches'
  /\ UNCHANGED << cfgVars, loss_terms, ep_valid, err, epoch, step, global_step, global_loss, loss, validVars,
                  saveVars, optVars, epochObs, logVars >>

\* line 100 written as an assignment: global_loss = loss.item()
TrainBackward_Assigns ==
  /\ pc = "loss"
  /\ LET l == TrainLoss(CrossEntropy(logits_per_image), CrossEntropy(logits_per_text),
                        config.gradient_accumulation_steps)
     IN /\ loss' = l
        /\ global_loss' = l
  /\ grad_batches' = grad_batches + 1
  /\ DropBatchLocals
  /\ IF AtBoundary(step, config.gradient_accumulation_steps)
       THEN pc' = "inc" /\ step' = step
       ELSE pc' = "batch" /\ step' = step + 1
  /\ loss_terms' = Append(loss_terms, loss')
  /\ UNCHANGED << cfgVars, ep_train_matches, ep_valid, err, epoch, global_step, train_img_acc, validVars, saveVars,
                  opt_steps, sched_steps, zero_grads, logit_scale_data, epochObs, logVars >>

\* lines 89-104: the two cross-entropies, the scaled loss, backward(),
\* global_loss, and the test of the accumulation boundary
TrainBackward ==
  /\ pc = "loss"
  /\ LET l == TrainLoss(CrossEntropy(logits_per_image), CrossEntropy(logits_per_text),
                        config.gradient_accumulation_steps)
     IN /\ loss' = l
        /\ global_loss' = global_loss + l
  /\ grad_batches' = grad_batches + 1
  /\ DropBatchLocals
  /\ IF AtBoundary(step, config.gradient_accumulation_steps)
       THEN pc' = "inc" /\ step' = step
       ELSE pc' = "batch" /\ step' = step + 1
  /\ loss_terms' = Append(loss_terms, loss')
  /\ UNCHANGED << cfgVars, ep_train_matches, ep_valid, err, epoch, global_step, train_img_acc, validVars, saveVars,
                  opt_steps, sched_steps, zero_grads, logit_scale_data, epochObs, logVars >>

\* lines 79-84 with n_gpu = 0: neither branch binds logit_scale, line 84 reads it
TrainBatchNoGpu ==
  /\ pc = "batch"
  /\ step < train_len
  /\ config.n_gpu = 0
  /\ pc' = "crashed"
  /\ err' = "UnboundLocalError"
  /\ UNCHANGED << cfgVars, sumObs, epoch, step, global_step, global_loss, train_img_acc,
                  lossVars, validVars, saveVars, optVars, epochObs, logVars >>

\* line 66: the training loader is exhausted
TrainLoopEnd ==
  /\ pc = "batch"
  /\ step >= train_len
  /\ pc' = "valid"
  /\ UNCHANGED << cfgVars, sumObs, err, epoch, step, global_step, global_loss, train_img_acc,
                  lossVars, validVars, saveVars, optVars, epochObs, logVars >>

\* line 105
IncGlobalStep ==
  /\ pc = "inc"
  /\ global_step' = global_step + 1
  /\ pc' = "optstep"
  /\ UNCHANGED << cfgVars, sumObs, err, epoch, step, global_loss, train_img_acc,
                  lossVars, validVars, saveVars, optVars, epochObs, logVars >>

\* line 106: optimizer.step() updates every parameter, the raw logit scale
\* among them, to a value the orchestrator does not control
OptimizerStep ==
  /\ pc = "optstep"
  /\ opt_steps' = opt_steps + 1
  /\ logit_scale_data' \in RawWrites
  /\ pc' = "clamp"
  /\ UNCHANGED << cfgVars, sumObs, err, epoch, step, global_step, global_loss, train_img_acc,
                  lossVars, validVars, saveVars, sched_steps, zero_grads, grad_batches,
                  epochObs, logVars >>

\* lines 109-112: both branches clamp the same parameter; with n_gpu = 0
\* neither runs
ClampLogitScale ==
  /\ pc = "clamp"
  /\ logit_scale_data' = IF config.n_gpu >= 1 THEN Clamp(logit_scale_data)
                                              ELSE logit_scale_data
  /\ pc' = "sched"
  /\ UNCHANGED << cfgVars, sumObs, err, epoch, step, global_step, global_loss, train_img_acc,
                  lossVars, validVars, saveVars, opt_steps, sched_steps, zero_grads,
                  grad_batches, epochObs, logVars >>

\* scheduler.step() called twice at a boundary
SchedulerStep_Twice ==
  /\ pc = "sched"
  /\ sched_steps' = sched_steps + 2
  /\ pc' = "zero"
  /\ UNCHANGED << cfgVars, sumObs, err, epoch, step, global_step, global_loss, train_img_acc,
                  lossVars, validVars, saveVars, opt_steps, zero_grads, logit_scale_data,
                  grad_batches, epochObs, logVars >>

\* lines 114-115: the scheduler object is always truthy
SchedulerStep ==
  /\ pc = "sched"
  /\ sched_steps' = sched_steps + 1
  /\ pc' = "zero"
  /\ UNCHANGED << cfgVars, sumObs, err, epoch, step, global_step, global_loss, train_img_acc,
                  lossVars, validVars, saveVars, opt_steps, zero_grads, logit_scale_data,
                  grad_batches, epochObs, logVars >>

\* line 117
ZeroGrad ==
  /\ pc = "zero"
  /\ grad_batches' = 0
  /\ zero_grads' = zero_grads + 1
  /\ pc' = "log"
  /\ UNCHANGED << cfgVars, sumObs, err, epoch, step, global_step, global_loss, train_img_acc,
                  lossVars, validVars, saveVars, opt_steps, sched_steps, logit_scale_data,
                  epochObs, logVars >>

\* lines 119-120
LogStep ==
  /\ pc = "log"
  /\ train_log' =
       IF global_step % config.logging_steps = 0
         THEN [ epoch |-> epoch, global_step |-> global_step, loss |-> loss,
                avg_num |-> global_loss, avg_den |-> global_step,
                train_img_acc |-> train_img_acc ]
         ELSE train_log
  /\ pc' = "ckpt"
  /\ UNCHANGED << cfgVars, sumObs, err, epoch, step, global_step, global_loss, train_img_acc,
                  lossVars, validVars, saveVars, optVars, epochObs, valid_log, result >>

\* line 122 without its second disjunct: only the periodic checkpoint
SaveDue_NoFinal ==
  config.save_steps > 0 /\ global_step % config.save_steps = 0

\* line 122 testing the batch index of the epoch instead of global_step
SaveDue_OnBatchIndex ==
  \/ (config.save_steps > 0 /\ (step + 1) % config.save_steps = 0)
  \/ global_step = t_total

\* line 122
SaveDue ==
  \/ (config.save_steps > 0 /\ global_step % config.save_steps = 0)
  \/ global_step = t_total

\* lines 122-124 taken, and lines 179-180 of save_checkpoint
CheckpointCall ==
  /\ pc = "ckpt"
  /\ train_log' = << >>
  /\ SaveDue
  /\ save_calls' = save_calls + 1
  /\ last_saved_step' = global_step
  /\ save_num' = 0
  /\ save_attempts' = 0
  /\ save_msgs' = {}
  /\ pc' = "save_try"
  /\ UNCHANGED << cfgVars, sumObs, err, epoch, step, global_step, global_loss, train_img_acc,
                  lossVars, validVars, optVars, epochObs, valid_log, result >>

\* line 122 not taken: on to the next batch
CheckpointSkip ==
  /\ pc = "ckpt"
  /\ train_log' = << >>
  /\ ~SaveDue
  /\ step' = step + 1
  /\ pc' = "batch"
  /\ UNCHANGED << cfgVars, sumObs, err, epoch, global_step, global_loss, train_img_acc,
                  lossVars, validVars, saveVars, optVars, epochObs, valid_log, result >>

\* ---------------------------------------------------------- save_checkpoint()
\* save_num counts every attempt, the successful one too
SaveAttemptOk_CountsAttempt ==
  /\ pc = "save_try"
  /\ save_num < MaxSaveTrials
  /\ save_attempts' = save_attempts + 1
  /\ save_num' = save_num + 1
  /\ save_msgs' = save_msgs \cup {"saved"}
  /\ pc' = "save_check"
  /\ UNCHANGED << cfgVars, sumObs, err, epoch, step, global_step, global_loss, train_img_acc,
                  lossVars, validVars, save_calls, last_saved_step, optVars, epochObs,
                  logVars >>

\* lines 181-188: torch.save succeeds, the success is logged, break
SaveAttemptOk ==
  /\ pc = "save_try"
  /\ save_num < MaxSaveTrials
  /\ save_attempts' = save_attempts + 1
  /\ save_msgs' = save_msgs \cup {"saved"}
  /\ pc' = "save_check"
  /\ UNCHANGED << cfgVars, sumObs, err, epoch, step, global_step, global_loss, train_img_acc,
                  lossVars, validVars, save_num, save_calls, last_saved_step, optVars, epochObs, logVars >>

\* lines 181-190: torch.save raises, the bare except swallows it
SaveAttemptFail ==
  /\ pc = "save_try"
  /\ save_num < MaxSaveTrials
  /\ save_attempts' = save_attempts + 1
  /\ save_num' = save_num + 1
  /\ pc' = "save_try"
  /\ UNCHANGED << cfgVars, sumObs, err, epoch, step, global_step, global_loss, train_img_acc,
                  lossVars, validVars, save_calls, last_saved_step, save_msgs, optVars, epochObs, logVars >>

\* the retry loop written with <=: one attempt more
SaveGiveUp_OneMore ==
  /\ pc = "save_try"
  /\ save_num >= MaxSaveTrials
  /\ \/ /\ save_num = MaxSaveTrials
        /\ save_attempts' = save_attempts + 1
        /\ save_num' = save_num + 1
        /\ pc' = "save_try"
     \/ /\ save_num > MaxSaveTrials
        /\ UNCHANGED << save_attempts, save_num >>
        /\ pc' = "save_check"
  /\ UNCHANGED << cfgVars, sumObs, err, epoch, step, global_step, global_loss, train_img_acc,
                  lossVars, validVars, save_calls, last_saved_step, save_msgs, optVars,
                  epochObs, logVars >>

\* line 181: the while condition fails
SaveGiveUp ==
  /\ pc = "save_try"
  /\ save_num >= MaxSaveTrials
  /\ pc' = "save_check"
  /\ UNCHANGED << cfgVars, sumObs, err, epoch, step, global_step, global_loss, train_img_acc,
                  lossVars, validVars, saveVars, optVars, epochObs, logVars >>

\* lines 191-192
SaveCheck ==
  /\ pc = "save_check"
  /\ save_msgs' = IF save_num = 10 THEN save_msgs \cup {"failed"} ELSE save_msgs
  /\ pc' = "save_ret"
  /\ UNCHANGED << cfgVars, sumObs, err, epoch, step, global_step, global_loss, train_img_acc,
                  lossVars, validVars, save_num, save_calls, last_saved_step, save_attempts, optVars,
                  epochObs, logVars >>

\* line 193: the call returns, its locals are gone; train() goes on to the
\* next batch
SaveReturn ==
  /\ pc = "save_ret"
  /\ save_num' = 0
  /\ save_attempts' = 0
  /\ save_msgs' = {}
  /\ step' = step + 1
  /\ pc' = "batch"
  /\ UNCHANGED << cfgVars, sumObs, err, epoch, global_step, global_loss, train_img_acc,
                  lossVars, validVars, save_calls, last_saved_step, optVars, epochObs, logVars >>

\* ------------------------------------------------------- the validation pass
\* the validation pass without lines 127 and 130: the sums run on from the
\* epoch before
ValidStart_KeepsSums ==
  /\ pc = "valid"
  /\ vpos' = 0
  /\ valid_runs' = valid_runs + 1
  /\ pc' = "vbatch"
  /\ ep_valid' = NoBatches
  /\ UNCHANGED << cfgVars, loss_terms, ep_train_matches, err, epoch, step, final_step,
                  global_step, global_loss, train_img_acc, lossVars, saveVars, optVars,
                  epoch_gs0, epoch_opt0, logVars, valid_loss, valid_img, valid_txt,
                  val_img_acc >>

\* lines 127-130: the validation sums are reset
ValidStart ==
  /\ pc = "valid"
  /\ valid_loss' = 0
  /\ valid_img' = 0
  /\ valid_txt' = 0
  /\ val_img_acc' = 0
  /\ vpos' = 0
  /\ valid_runs' = valid_runs + 1
  /\ pc' = "vbatch"
  /\ ep_valid' = NoBatches
  /\ UNCHANGED << cfgVars, loss_terms, ep_train_matches, err, epoch, step, final_step, global_step, global_loss,
                  train_img_acc, lossVars, saveVars, optVars, epoch_gs0, epoch_opt0,
                  logVars >>

\* lines 131-153 with one GPU or more, under torch.no_grad()
ValidForward ==
  /\ pc = "vbatch"
  /\ vpos < valid_len
  /\ config.n_gpu >= 1
  /\ final_step' = vpos
  /\ \E b \in Batches :
       /\ BindForward(b, ForwardOfBatch[b, logit_scale_data])
       /\ val_img_acc' = val_img_acc + ForwardOfBatch[b, logit_scale_data].matches
  /\ pc' = "vloss"
  /\ ep_valid' = [ep_valid EXCEPT !.acc = @ + matches']
  /\ UNCHANGED << cfgVars, loss_terms, ep_train_matches, err, epoch, step, vpos, global_step, global_loss,
                  train_img_acc, loss, valid_loss, valid_img, valid_txt, saveVars,
                  optVars, epochObs, logVars >>

\* the validation batch without torch.no_grad() and with the training loop's
\* loss.backward()
ValidBackward_Backpropagates ==
  /\ pc = "vloss"
  /\ LET il == CrossEntropy(logits_per_image)
         tl == CrossEntropy(logits_per_text)
     IN /\ loss' = (il + tl) \div 2
        /\ valid_loss' = valid_loss + ((il + tl) \div 2)
        /\ valid_img' = valid_img + il
        /\ valid_txt' = valid_txt + tl
  /\ grad_batches' = grad_batches + 1
  /\ DropBatchLocals
  /\ vpos' = vpos + 1
  /\ pc' = "vbatch"
  /\ ep_valid' = [ep_valid EXCEPT !.loss = @ + loss',
                                  !.img = @ + CrossEntropy(logits_per_image),
                                  !.txt = @ + CrossEntropy(logits_per_text),
                                  !.n = @ + 1]
  /\ UNCHANGED << cfgVars, loss_terms, ep_train_matches, err, epoch, step, final_step, global_step, global_loss,
                  train_img_acc, val_img_acc, saveVars, opt_steps, sched_steps, zero_grads,
                  logit_scale_data, epochObs, logVars >>

\* lines 155-164: the losses are added to the validation sums (no division by
\* the accumulation factor, no backward)
ValidBackward ==
  /\ pc = "vloss"
  /\ LET il == CrossEntropy(logits_per_image)
         tl == CrossEntropy(logits_per_text)
     IN /\ loss' = (il + tl) \div 2
        /\ valid_loss' = valid_loss + ((il + tl) \div 2)
        /\ valid_img' = valid_img + il
        /\ valid_txt' = valid_txt + tl
  /\ DropBatchLocals
  /\ vpos' = vpos + 1
  /\ pc' = "vbatch"
  /\ ep_valid' = [ep_valid EXCEPT !.loss = @ + loss',
                                  !.img = @ + CrossEntropy(logits_per_image),
                                  !.txt = @ + CrossEntropy(logits_per_text),
                                  !.n = @ + 1]
  /\ UNCHANGED << cfgVars, loss_terms, ep_train_matches, err, epoch, step, final_step, global_step, global_loss,
                  train_img_acc, val_img_acc, saveVars, optVars, epochObs, logVars >>

\* lines 143-148 with n_gpu = 0: logit_scale is read at line 148; it is bound
\* only if a training batch bound it, and with n_gpu = 0 none did
ValidBatchNoGpu ==
  /\ pc = "vbatch"
  /\ vpos < valid_len
  /\ config.n_gpu = 0
  /\ final_step' = vpos
  /\ pc' = "crashed"
  /\ err' = "UnboundLocalError"
  /\ UNCHANGED << cfgVars, sumObs, epoch, step, vpos, global_step, global_loss, train_img_acc,
                  lossVars, valid_loss, valid_img, valid_txt, val_img_acc, saveVars,
                  optVars, epochObs, logVars >>

\* lines 165-168 after at least one validation batch: the averages are logged
\* and the epoch ends
ValidReport ==
  /\ pc = "vbatch"
  /\ vpos >= valid_len
  /\ final_step # Unbound
  /\ valid_log' = [ epoch |-> epoch, loss_num |-> valid_loss, img_num |-> valid_img,
                    txt_num |-> valid_txt, den |-> final_step + 1,
                    val_img_acc |-> val_img_acc ]
  /\ epoch' = epoch + 1
  /\ pc' = "epoch"
  /\ UNCHANGED << cfgVars, sumObs, err, step, global_step, global_loss, train_img_acc,
                  lossVars, validVars, saveVars, optVars, epochObs, train_log, result >>

\* line 168 with an empty validation loader: final_step was never bound
ValidReportUnbound ==
  /\ pc = "vbatch"
  /\ vpos >= valid_len
  /\ final_step = Unbound
  /\ pc' = "crashed"
  /\ err' = "UnboundLocalError"
  /\ UNCHANGED << cfgVars, sumObs, epoch, step, global_step, global_loss, train_img_acc,
                  lossVars, validVars, saveVars, optVars, epochObs, logVars >>

\* line 172
Return ==
  /\ pc = "return"
  /\ global_step # 0
  /\ result' = [ global_step |-> global_step, avg_num |-> global_loss,
                 avg_den |-> global_step ]
  /\ pc' = "done"
  /\ UNCHANGED << cfgVars, sumObs, err, epoch, step, global_step, global_loss, train_img_acc,
                  lossVars, validVars, saveVars, optVars, epochObs, train_log, valid_log >>

\* line 172 with global_step = 0: global_loss / global_step raises
ReturnDivZero ==
  /\ pc = "return"
  /\ global_step = 0
  /\ pc' = "crashed"
  /\ err' = "ZeroDivisionError"
  /\ UNCHANGED << cfgVars, sumObs, epoch, step, global_step, global_loss, train_img_acc,
                  lossVars, validVars, saveVars, optVars, epochObs, logVars >>

Next ==
  \/ EpochStart
  \/ EpochsDone
  \/ TrainForward
  \/ TrainBackward
  \/ TrainBatchNoGpu
  \/ TrainLoopEnd
  \/ IncGlobalStep
  \/ OptimizerStep
  \/ ClampLogitScale
  \/ SchedulerStep
  \/ ZeroGrad
  \/ LogStep
  \/ CheckpointCall
  \/ CheckpointSkip
  \/ SaveAttemptOk
  \/ SaveAttemptFail
  \/ SaveGiveUp
  \/ SaveCheck
  \/ SaveReturn
  \/ ValidStart
  \/ ValidForward
  \/ ValidBackward
  \/ ValidBatchNoGpu
  \/ ValidReport
  \/ ValidReportUnbound
  \/ Return
  \/ ReturnDivZero

Spec == Init /\ [][Next]_vars

\* train() is one sequential thread with no blocking call that can wait for
\* ever: whenever a step is possible, one is taken.
FairSpec == Spec /\ WF_vars(Next)

\* ------------------------------------------- the logit computation on its own
\* Every pair of encoder outputs with 1..BatchRows rows drawn from RawRows.
PairInputs ==
  UNION { [ img : [1..B -> RawRows], txt : [1..B -> RawRows] ] : B \in 1..BatchRows }

\* The raw logit scales a batch can find stored: the constructed one and what
\* the clamp leaves of an optimizer write.
StoredScales == {InitLogitScale} \cup { Clamp(w) : w \in RawWrites }

InitLogits ==
  /\ config = [ gradient_accumulation_steps |-> 1, num_train_epochs |-> 1,
                save_steps |-> 0, logging_steps |-> 2, n_gpu |-> 1 ]
  /\ train_len = 1
  /\ valid_len = 1
  /\ pc = "pair"
  /\ logit_scale_data \in StoredScales
  /\ batch \in PairInputs
  /\ Fresh

\* lines 73-88 applied to the pair in hand
PairTrain ==
  /\ pc = "pair"
  /\ BindForward(batch, ForwardOf(batch, logit_scale_data))
  /\ train_img_acc' = train_img_acc + ForwardOf(batch, logit_scale_data).matches
  /\ pc' = "loss"
  /\ ep_train_matches' = ep_train_matches + matches'
  /\ UNCHANGED << cfgVars, loss_terms, ep_valid, err, epoch, step, global_step, global_loss, loss, validVars,
                  saveVars, optVars, epochObs, logVars >>

\* lines 137-153 applied to the pair in hand
PairValid ==
  /\ pc = "pair"
  /\ BindForward(batch, ForwardOf(batch, logit_scale_data))
  /\ val_img_acc' = val_img_acc + ForwardOf(batch, logit_scale_data).matches
  /\ pc' = "vloss"
  /\ ep_valid' = [ep_valid EXCEPT !.acc = @ + matches']
  /\ UNCHANGED << cfgVars, loss_terms, ep_train_matches, err, epoch, step, vpos, final_step, global_step, global_loss,
                  train_img_acc, loss, valid_loss, valid_img, valid_txt, saveVars,
                  optVars, epochObs, logVars >>

NextLogits ==
  \/ PairTrain
  \/ PairValid

SpecLogits == InitLogits /\ [][NextLogits]_vars

\* ---------------------------------------------- failures of the collaborators
\* train() has no try/except: an exception raised by a call it makes leaves
\* train() at the line of the call. The failing call changes nothing the
\* orchestrator holds.
Raise(e) ==
  /\ pc' = "crashed"
  /\ err' = e
  /\ UNCHANGED << cfgVars, sumObs, epoch, step, global_step, global_loss, train_img_acc,
                  lossVars, saveVars, optVars, epochObs, logVars >>

\* the encoder's failure caught around line 73 and the batch fetched again
EncoderFails_Retried ==
  /\ pc = "batch"
  /\ step < train_len
  /\ pc' = "batch"
  /\ err' = "EncoderError"
  /\ UNCHANGED << cfgVars, sumObs, epoch, step, global_step, global_loss, train_img_acc,
                  lossVars, validVars, saveVars, optVars, epochObs, logVars >>

\* line 73: model(input_images, input_texts) raises
EncoderFails ==
  /\ pc = "batch"
  /\ step < train_len
  /\ Raise("EncoderError")
  /\ UNCHANGED validVars

\* lines 89-98: F.cross_entropy or loss.backward() raises
LossFails ==
  /\ pc = "loss"
  /\ Raise("LossError")
  /\ UNCHANGED validVars

\* line 106: optimizer.step() raises; global_step was incremented at line 105
OptimizerFails ==
  /\ pc = "optstep"
  /\ Raise("OptimizerError")
  /\ UNCHANGED validVars

\* line 137: the encoder raises on a validation batch; enumerate has bound
\* final_step
ValidEncoderFails ==
  /\ pc = "vbatch"
  /\ vpos < valid_len
  /\ final_step' = vpos
  /\ Raise("EncoderError")
  /\ UNCHANGED << valid_loss, valid_img, valid_txt, val_img_acc, vpos >>

\* lines 155-156: F.cross_entropy raises on a validation batch
ValidLossFails ==
  /\ pc = "vloss"
  /\ Raise("LossError")
  /\ UNCHANGED validVars

NextFail ==
  \/ Next
  \/ EncoderFails
  \/ LossFails
  \/ OptimizerFails
  \/ ValidEncoderFails
  \/ ValidLossFails

\* the training run with collaborators that may fail
SpecFail == Init /\ [][NextFail]_vars

\* ===================================================================== claims
Accum == config.gradient_accumulation_steps
TrainPcs == { "batch", "loss", "inc", "optstep", "clamp", "sched", "zero", "log", "ckpt" }
SavePcs == { "save_try", "save_check", "save_ret" }
ValidPcs == { "valid", "vbatch", "vloss" }

\* C1: when the training loop of an epoch has ended, the optimizer has stepped
\* exactly floor(train_len / gradient_accumulation_steps) times in that epoch
\* and global_step has grown by exactly that number; at the end of the first
\* epoch global_step equals it.
C1_StepsPerEpoch ==
  pc \in ValidPcs =>
    /\ opt_steps - epoch_opt0 = train_len \div Accum
    /\ global_step - epoch_gs0 = train_len \div Accum
    /\ (epoch = 0 => global_step = train_len \div Accum)

\* the second epoch of a run with 3 batches and accumulation factor 2 has
\* ended: one optimizer step, one batch left over
C1_Witness ==
  /\ pc = "valid"
  /\ epoch = 1
  /\ train_len = 3
  /\ Accum = 2
  /\ opt_steps - epoch_opt0 = 1
  /\ global_step = 2

\* C2: a save that succeeds after k < 10 failed attempts has made exactly k + 1
\* attempts, makes no further attempt, and reports success only (9 failures
\* and a success on the 10th attempt: 10 attempts, no failure message).
C2_SaveSucceeds ==
  /\ pc = "save_try" => ("saved" \notin save_msgs /\ save_attempts = save_num)
  /\ (pc \in {"save_check", "save_ret"} /\ "saved" \in save_msgs) =>
        /\ save_num < 10
        /\ save_attempts = save_num + 1
  /\ (pc = "save_ret" /\ "saved" \in save_msgs) => save_msgs = {"saved"}

\* nine attempts failed, the tenth succeeded, and save_checkpoint is about to return
C2_Witness ==
  /\ pc = "save_ret"
  /\ save_num = 9
  /\ save_attempts = 10
  /\ save_msgs = {"saved"}

\* a step of save_checkpoint leaves global_step and epoch alone and raises
\* nothing; the batch index moves on by one when the call has returned
SaveKeepsPosition ==
  pc \in SavePcs =>
    /\ global_step' = global_step
    /\ epoch' = epoch
    /\ err' = ""
    /\ IF pc = "save_ret"
         THEN pc' = "batch" /\ step' = step + 1
         ELSE pc' \in SavePcs /\ step' = step

\* C3: a save whose every attempt fails makes exactly 10 attempts and reports
\* the failure; nothing is raised: save_checkpoint returns into the training
\* loop, which goes on with the next batch, and the save has changed neither
\* global_step nor epoch nor the batch index; the run then reaches its normal
\* end (given a validation loader that yields a batch: an empty one ends any
\* run at line 168, whatever the save did).
C3_SaveFailsRunContinues ==
  /\ []((pc \in {"save_check", "save_ret"} /\ "saved" \notin save_msgs) =>
          (save_attempts = 10 /\ save_num = 10))
  /\ []((pc = "save_ret" /\ "saved" \notin save_msgs) =>
          (save_msgs = {"failed"} /\ err = ""))
  /\ [][SaveKeepsPosition]_vars
  /\ ((pc = "save_ret" /\ save_msgs = {"failed"} /\ valid_len >= 1) ~> (pc = "done"))

\* all ten attempts of a save in the first epoch of a two-epoch run have
\* failed and the failure has been logged
C3_Witness ==
  /\ pc = "save_ret"
  /\ save_msgs = {"failed"}
  /\ save_attempts = 10
  /\ epoch = 0
  /\ config.num_train_epochs = 2
  /\ valid_len >= 1

\* C4 as stated, on runs with at least one batch and one epoch: with
\* save_steps = 0 a run that has gone through all its epochs has called
\* save_checkpoint exactly once, with global_step = t_total.
C4_OnceInEveryRun ==
  (config.save_steps = 0 /\ pc = "return" /\ train_len >= 1 /\ config.num_train_epochs >= 1)
    => (save_calls = 1 /\ last_saved_step = t_total)

\* C4 (amended): with save_steps = 0 save_checkpoint is never called at a
\* boundary other than the one where global_step becomes t_total, so at most
\* once; a run with t_total >= 1 that has gone through all its epochs has
\* called it exactly once; a run with t_total = 0 never calls it.
C4_FinalCheckpointOnly ==
  config.save_steps = 0 =>
    /\ save_calls <= 1
    /\ pc \in SavePcs =>
         (save_calls = 1 /\ global_step = t_total /\ (step + 1) % Accum = 0)
    /\ save_calls = 1 => (last_saved_step = t_total /\ t_total >= 1)
    /\ (pc \in {"return", "done"} /\ t_total >= 1) => save_calls = 1
    /\ t_total = 0 => save_calls = 0

\* a two-epoch run with 3 batches, accumulation factor 2 and save_steps = 0 has
\* returned: its one checkpoint was taken at global_step = t_total = 2
C4_Witness ==
  /\ config.save_steps = 0
  /\ pc = "done"
  /\ train_len = 3
  /\ Accum = 2
  /\ config.num_train_epochs = 2
  /\ save_calls = 1
  /\ last_saved_step = 2

\* a step of a run with save_steps > 0: save_checkpoint is called exactly at
\* line 122 of a boundary batch, if and only if global_step is a multiple of
\* save_steps or equals t_total, once, and for a global_step no earlier call
\* was made for
SaveOnlyWhenDue ==
  config.save_steps > 0 =>
    /\ pc = "ckpt" =>
         /\ (step + 1) % Accum = 0
         /\ (save_calls' = save_calls + 1) <=>
              (global_step % config.save_steps = 0 \/ global_step = t_total)
    /\ save_calls' # save_calls =>
         /\ pc = "ckpt"
         /\ save_calls' = save_calls + 1
         /\ last_saved_step < global_step
         /\ last_saved_step' = global_step

\* C5: with save_steps > 0, save_checkpoint is called at an accumulation
\* boundary if and only if the just-incremented global_step is a multiple of
\* save_steps or equals t_total, at most once per boundary, and never on a
\* batch that is not a boundary.
C5_SaveAtBoundaryIffDue == [][SaveOnlyWhenDue]_vars

\* a call made where both conditions hold at once: global_step = t_total = 2
\* with save_steps = 2, and it is the first call of the run
C5_Witness ==
  /\ pc = "save_try"
  /\ config.save_steps = 2
  /\ global_step = 2
  /\ t_total = 2
  /\ save_calls = 1

\* C6: once the optimizer has stepped, the stored raw logit scale lies in
\* [0, ln(100)] in every state but the one between optimizer.step() and the
\* clamp, so in particular whenever a later batch reads it.
C6_ScaleWithinLnHundred ==
  (opt_steps >= 1 /\ pc # "clamp") =>
    (0 <= logit_scale_data /\ logit_scale_data <= LnHundred)

\* what the clamp of lines 109-112 does guarantee: the stored value lies
\* between 0 and the literal 4.6052
ScaleWithinClampLiteral ==
  (opt_steps >= 1 /\ pc # "clamp") =>
    (ClampMin <= logit_scale_data /\ logit_scale_data <= ClampMax)

\* a step changes global_step only at line 105 of a boundary batch, by +1
GlobalStepMoves ==
  IF pc = "inc"
    THEN global_step' = global_step + 1 /\ (step + 1) % Accum = 0
    ELSE global_step' = global_step

\* C7: global_step is a non-negative integer that never decreases; it grows
\* by exactly 1 at a batch whose index satisfies (step + 1) mod
\* gradient_accumulation_steps = 0 and is left alone by every other step:
\* other batches, validation, checkpointing, epoch transitions.
C7_GlobalStepMonotonic ==
  /\ [](global_step \in Nat)
  /\ [][GlobalStepMoves]_vars

\* the second epoch's boundary has just raised global_step from 1 to 2
C7_Witness ==
  /\ pc = "optstep"
  /\ epoch = 1
  /\ global_step = 2
  /\ epoch_gs0 = 1

\* the first column holding the largest entry of row i
RowArgmax(M, i) ==
  CHOOSE j \in 1..Len(M[i]) :
    /\ \A k \in 1..Len(M[i]) : M[i][k] <= M[i][j]
    /\ \A k \in 1..Len(M[i]) : k < j => M[i][k] < M[i][j]

\* the number of rows whose best column is the row's own
RowMatches(M) == Cardinality({ i \in Rows(M) : RowArgmax(M, i) = i })

\* C8: the match count of a batch, in the training and in the validation
\* pass, is the number of rows i of logits_per_image whose per-row argmax is i.
C8_MatchCountIsPerRow ==
  pc \in {"loss", "vloss"} => matches = RowMatches(logits_per_image)

\* C9: logits_per_text is the transpose of logits_per_image of the same batch,
\* entry by entry, in the training and in the validation pass.
C9_TextLogitsAreTranspose ==
  pc \in {"loss", "vloss"} =>
    /\ Len(logits_per_text) = Len(logits_per_image)
    /\ \A i \in Rows(logits_per_image) : \A j \in Rows(logits_per_image) :
         logits_per_text[i][j] = logits_per_image[j][i]

\* a validation batch of two rows whose logits_per_image is not symmetric
C9_Witness ==
  /\ pc = "vloss"
  /\ Len(logits_per_image) = 2
  /\ logits_per_image[1][2] # logits_per_image[2][1]
  /\ logits_per_text[2][1] = logits_per_image[1][2]

\* where the validation passes lie: none has started in the current epoch
\* while its batches are trained, the pass starts when the training loader is
\* exhausted, and one pass has run for every finished epoch
ValidationOncePerEpoch ==
  /\ pc \in TrainPcs \cup SavePcs \cup {"epoch"} => valid_runs = epoch
  /\ pc = "valid" => (valid_runs = epoch /\ step = train_len)
  /\ pc \in {"vbatch", "vloss"} => (valid_runs = epoch + 1 /\ step = train_len)
  /\ pc \in {"return", "done"} => valid_runs = config.num_train_epochs

\* a step of the validation pass leaves the training state alone and calls
\* no checkpoint
ValidationFrame ==
  pc \in ValidPcs =>
    UNCHANGED << global_step, opt_steps, sched_steps, logit_scale_data, grad_batches,
                 zero_grads, save_calls >>

\* C10: in every epoch the validation pass runs once, after all training
\* batches of the epoch and before any of the next; it changes neither
\* global_step, the optimizer, the schedule, the logit scale nor the
\* accumulated gradients, and takes no checkpoint.
C10_ValidationPass ==
  /\ []ValidationOncePerEpoch
  /\ [][ValidationFrame]_vars

\* the validation pass of the second epoch is at work while a left-over
\* training batch's gradient is still accumulated
C10_Witness ==
  /\ pc = "vloss"
  /\ epoch = 1
  /\ valid_runs = 2
  /\ grad_batches = 1
  /\ global_step = 2

\* the exceptions of the collaborators
CollaboratorErrors == { "EncoderError", "LossError", "OptimizerError" }

\* a raising step leaves the counters of the run as they are: the failed call
\* completed nothing and the batch index did not advance
FailureStopsHere ==
  (pc' = "crashed" /\ err' \in CollaboratorErrors) =>
    /\ pc \in {"batch", "loss", "optstep", "vbatch", "vloss"}
    /\ UNCHANGED << epoch, step, vpos, global_step, opt_steps, sched_steps, zero_grads,
                    save_calls, grad_batches, logit_scale_data, result >>

\* C11: a failure raised by the encoder, the loss computation or the optimizer
\* while a batch is processed is not caught: once raised, train() is at its
\* end with the exception, the raising step completed nothing, and no step
\* follows it (no batch, no retry, no optimizer or schedule step, no
\* checkpoint).
C11_FailurePropagates ==
  /\ [](err # "" => pc = "crashed")
  /\ [][FailureStopsHere]_vars
  /\ [][pc # "crashed"]_vars

\* the optimizer failed at the second boundary of a run: global_step is 2,
\* one optimizer step was completed
C11_Witness ==
  /\ pc = "crashed"
  /\ err = "OptimizerError"
  /\ global_step = 2
  /\ opt_steps = 1
  /\ sched_steps = 1

\* the positions inside the boundary block between line 105 and line 117
BoundaryPcs == { "optstep", "clamp", "sched", "zero" }

\* how far the boundary block has got, read from the call counters: each of
\* the four positions has the calls before it done and the calls after it
\* still to come
BoundaryOrder ==
  /\ pc = "optstep" =>
       /\ opt_steps = global_step - 1
       /\ sched_steps = global_step - 1
       /\ zero_grads = global_step - 1
  /\ pc = "clamp" =>
       /\ opt_steps = global_step
       /\ sched_steps = global_step - 1
       /\ zero_grads = global_step - 1
  /\ pc = "sched" =>
       /\ opt_steps = global_step
       /\ ClampMin <= logit_scale_data /\ logit_scale_data <= ClampMax
       /\ sched_steps = global_step - 1
       /\ zero_grads = global_step - 1
  /\ pc = "zero" =>
       /\ opt_steps = global_step
       /\ sched_steps = global_step
       /\ zero_grads = global_step - 1
       /\ grad_batches > 0
  /\ pc \in {"log", "ckpt"} => grad_batches = 0

\* outside the boundary block the three call counts equal global_step, and
\* the schedule is never advanced beyond t_total
CountersAgree ==
  /\ pc \notin BoundaryPcs =>
       /\ opt_steps = global_step
       /\ sched_steps = global_step
       /\ zero_grads = global_step
  /\ sched_steps <= t_total

\* a training record is logged and a checkpoint is called only from the two
\* positions behind the gradient reset
LogAndSaveLast ==
  ((train_log' # << >> /\ train_log' # train_log) \/ save_calls' # save_calls) =>
    /\ pc \in {"log", "ckpt"}
    /\ opt_steps = global_step
    /\ sched_steps = global_step
    /\ zero_grads = global_step
    /\ grad_batches = 0

\* C12: at every accumulation boundary global_step is incremented, then the
\* optimizer steps, then the logit scale is clamped, then the schedule
\* advances by one, then the gradients are reset, and only then logging and
\* checkpointing are considered; outside a boundary the numbers of optimizer
\* steps, schedule steps and gradient resets all equal global_step, and the
\* schedule is advanced at most t_total times.
C12_BoundaryOrder ==
  /\ [](BoundaryOrder /\ CountersAgree)
  /\ [][LogAndSaveLast]_vars

\* the second boundary of a run between the clamp and the scheduler: the
\* optimizer wrote a value above the range and the clamp has cut it
C12_Witness ==
  /\ pc = "sched"
  /\ global_step = 2
  /\ opt_steps = 2
  /\ sched_steps = 1
  /\ zero_grads = 1
  /\ logit_scale_data = ClampMax

\* C13: at every invocation of optimizer.step() the gradients of exactly
\* gradient_accumulation_steps training batches have been accumulated since
\* the previous gradient reset (or since the start of training).
C13_FullAccumulationOnly ==
  pc = "optstep" => grad_batches = Accum

\* C14: with no collaborator failure, at least one training batch per epoch
\* and at least one epoch (here also: a GPU and a non-empty validation
\* loader), train() does not end in an exception, global_step never exceeds
\* t_total and reaches it in the last epoch only, and the value returned is
\* global_step = t_total with the average global_loss / global_step.
C14_NormalReturn ==
  (train_len >= 1 /\ config.num_train_epochs >= 1 /\ config.n_gpu >= 1 /\ valid_len >= 1) =>
    /\ pc # "crashed"
    /\ global_step <= t_total
    /\ (t_total >= 1 /\ global_step = t_total) => epoch >= config.num_train_epochs - 1
    /\ pc = "done" =>
         result = [ global_step |-> t_total, avg_num |-> global_loss, avg_den |-> t_total ]

\* C15: the warmup-step count given to the schedule is floor(t_total / 5),
\* and whenever t_total >= 1 it satisfies 0 <= num_warmup_steps < t_total,
\* t_total being the schedule's num_training_steps.
C15_WarmupCount ==
  /\ num_warmup_steps = t_total \div 5
  /\ t_total >= 1 => (0 <= num_warmup_steps /\ num_warmup_steps < t_total)
  /\ \A t \in 0..MaxTotalSteps :
       /\ WarmupOf(t) = t \div 5
       /\ t >= 1 => (0 <= WarmupOf(t) /\ WarmupOf(t) < t)

\* a run of 6 optimizer steps with a warmup of 1 step, the schedule past its
\* warmup
C15_Witness ==
  /\ t_total = 6
  /\ num_warmup_steps = 1
  /\ sched_steps = 2

\* what the per-epoch accumulators hold: inside the training loop the match
\* count of this epoch's training batches, inside the validation pass the
\* sums of this epoch's validation batches; both are zero before the first
\* batch, and what is logged is what they hold
EpochSumsCoverEpoch ==
  /\ pc \in TrainPcs \cup SavePcs => train_img_acc = ep_train_matches
  /\ (pc = "batch" /\ step = 0) => train_img_acc = 0
  /\ pc \in {"vbatch", "vloss"} =>
       /\ valid_loss = ep_valid.loss
       /\ valid_img = ep_valid.img
       /\ valid_txt = ep_valid.txt
       /\ val_img_acc = ep_valid.acc
  /\ (pc = "vbatch" /\ vpos = 0) =>
       (valid_loss = 0 /\ valid_img = 0 /\ valid_txt = 0 /\ val_img_acc = 0)
  /\ train_log # << >> => train_log.train_img_acc = ep_train_matches
  /\ valid_log # << >> =>
       /\ valid_log.loss_num = ep_valid.loss
       /\ valid_log.img_num = ep_valid.img
       /\ valid_log.txt_num = ep_valid.txt
       /\ valid_log.val_img_acc = ep_valid.acc
       /\ valid_log.den = ep_valid.n

\* an accumulator goes down only where its epoch begins: line 64 for the
\* training match count, lines 127-130 for the validation sums
ResetOnlyAtEpochStart ==
  /\ train_img_acc' < train_img_acc => pc = "epoch"
  /\ (valid_loss' < valid_loss \/ valid_img' < valid_img \/ valid_txt' < valid_txt
        \/ val_img_acc' < val_img_acc) => pc = "valid"

\* C16: the training match count is zero at the first training batch of each
\* epoch and the validation sums are zero at the first validation batch of
\* each epoch; none of them is reset in the middle of an epoch, so every
\* value reported covers the batches of its own epoch only.
C16_PerEpochSums ==
  /\ []EpochSumsCoverEpoch
  /\ [][ResetOnlyAtEpochStart]_vars

\* the validation record of the second epoch: one batch's losses, although
\* the first epoch's pass added as much before
C16_Witness ==
  /\ valid_log # << >>
  /\ valid_log.epoch = 1
  /\ valid_log.den = 1
  /\ valid_log.loss_num = 12
  /\ valid_log.val_img_acc = 1
  /\ train_img_acc = 1
  /\ train_len = 2

\* global_loss changes at line 100 only, by the scaled loss of the batch in hand
GlobalLossOnlyAdds ==
  global_loss' # global_loss =>
    /\ pc = "loss"
    /\ global_loss' = global_loss + TrainLoss(CrossEntropy(logits_per_image),
                                               CrossEntropy(logits_per_text), Accum)

\* global_loss is the sum of the losses of all training batches processed so
\* far, in this and in all earlier epochs
GlobalLossIsSum ==
  /\ global_loss = SumSeq(loss_terms)
  /\ pc = "batch" => Len(loss_terms) = epoch * train_len + step
  /\ pc \in ValidPcs => Len(loss_terms) = (epoch + 1) * train_len
  /\ pc \in {"return", "done"} => Len(loss_terms) = config.num_train_epochs * train_len
  /\ pc = "done" => result.avg_num = SumSeq(loss_terms)

\* C17: global_loss starts at 0, is changed only by adding the scalar loss of
\* a training batch, keeps its value across epoch transitions, validation
\* passes and checkpoints, and at the end of the run is the sum of the
\* accumulation-scaled losses of all training batches processed.
C17_GlobalLossNeverReset ==
  /\ []GlobalLossIsSum
  /\ [][GlobalLossOnlyAdds]_vars

\* the end of a run of two epochs of three batches with accumulation factor
\* 2: six losses of 6 each, checkpoints taken on the way
C17_Witness ==
  /\ pc = "done"
  /\ config.num_train_epochs = 2
  /\ Accum = 2
  /\ Len(loss_terms) = 6
  /\ global_loss = 36
  /\ save_calls >= 1
  /\ valid_runs = 2

\* C18: every average reported divides a running sum by the number of steps
\* that contributed to it since its last reset: the validation record divides
\* the sums of this epoch's validation batches by their number, and the
\* running average of a training record divides the sum of all losses added
\* so far by the number of steps that contributed them (counted in optimizer
\* steps, each of which stands for gradient_accumulation_steps batches whose
\* losses were divided by that factor).
C18_AveragesDivideByCount ==
  /\ valid_log # << >> =>
       /\ valid_log.loss_num = ep_valid.loss
       /\ valid_log.den = ep_valid.n
  /\ train_log # << >> =>
       /\ train_log.avg_num = SumSeq(loss_terms)
       /\ train_log.avg_den * Accum = Len(loss_terms)

====
